---- MODULE Spec2Model ----
(***************************************************************************)
(* Model of bulk_uploader_libre.py: the Libre export -> Nightscout sync.   *)
(*                                                                         *)
(* One run of the script is copy_file_if_newer followed by                 *)
(* upload_to_nightscout; upload_to_nightscout can also be called on its    *)
(* own (the module guards its script part with __name__ == "__main__").    *)
(* Spec is one run; SpecTwice is two runs of the script, one after the     *)
(* other, against one remote store and one directory of export files.      *)
(*                                                                         *)
(* Time is in whole seconds.  The watermark last_timestamp is the rational *)
(* entries[0]['date'] / 1000; it is kept as its numerator over 1000 (that  *)
(* is, in milliseconds), so that a comparison "timestamp <= last" of the   *)
(* code is "timestamp * 1000 <= last_timestamp" here, exactly.             *)
(***************************************************************************)
EXTENDS Integers, Sequences, FiniteSets, TLC

\* ------------------------------------------------------------------ bounds
MaxRows == 2
MaxTime == 2

\* ------------------------------------------------------- program constants
MsPerSecond == 1000
HttpOk == 200

\* ------------------------------------------------------------- the export
\* One cell of a tab separated row: a text that parses (to the number v) or
\* one that does not (empty or garbage text).
Cell(v) == [ok |-> TRUE, v |-> v]
Garbage == [ok |-> FALSE, v |-> 0]

\* A row of ncols cells, of which the code reads row[1], the time, row[2],
\* the record type, and row[3], row[4] and row[12], the three readings (in
\* hundredths of mmol/L).  Only these cells are kept, as c1, c2, c3, c4 and
\* c12; a cell at or beyond ncols is not in the row.
MkRow(ncols, time, rtype, f3, f4, f12) ==
    [ncols |-> ncols, c1 |-> time, c2 |-> rtype, c3 |-> f3, c4 |-> f4,
     c12 |-> f12]

\* The row of a blank line: csv.reader gives [].
BlankRow == MkRow(0, Garbage, Garbage, Garbage, Garbage, Garbage)

Times == 1..MaxTime

\* The data rows an export may hold.  GoodRows: rows with every field
\* readable, of the record types 0..3.  BadRows: rows with one defect each:
\* a time that does not parse, a blank line, a record type that does not
\* parse (at every instant), a reading that does not parse and a row too
\* short for its reading (both at the instant 1).
GoodRows ==
    {MkRow(13, Cell(t), Cell(k), Cell(400), Cell(500), Cell(600)) :
        t \in Times, k \in 0..3}

BadRows ==
    {MkRow(13, Garbage, Cell(0), Cell(400), Cell(500), Cell(600)), BlankRow}
    \cup {MkRow(13, Cell(t), Garbage, Cell(400), Cell(500), Cell(600)) :
        t \in Times}
    \cup {MkRow(13, Cell(1), Cell(0), Garbage, Cell(500), Cell(600)),
          MkRow(5, Cell(1), Cell(2), Cell(400), Cell(500), Garbage)}

RowPool == GoodRows \cup BadRows

SeqsUpTo(S, n) == UNION {[1..k -> S] : k \in 0..n}

\* The first two lines of an export: the patient name and the headers.
Preamble ==
    << MkRow(1, Garbage, Garbage, Garbage, Garbage, Garbage),
       MkRow(13, Garbage, Garbage, Garbage, Garbage, Garbage) >>

\* The exports: the preamble, then up to MaxRows data rows, at most one of
\* them a bad one.
Exports ==
    {Preamble \o rows : rows \in
        {x \in SeqsUpTo(RowPool, MaxRows) :
            Cardinality({i \in DOMAIN x : x[i] \in BadRows}) <= 1}}

\* ------------------------------------------------------------ pure helpers
RECURSIVE SetMax(_)
SetMax(S) ==
    LET x == CHOOSE y \in S : TRUE
    IN  IF S = {x} THEN x
        ELSE LET m == SetMax(S \ {x}) IN IF x > m THEN x ELSE m

\* to_mldg: int(mmoll * 18.018018), on a reading in hundredths of mmol/L,
\* that is floor(mmoll * 18018018 / 10^8).  With a = 18 * mmoll this is
\* floor(a * 1001001 / 10^8) = floor((a * 1001 + floor(a / 1000)) / 10^5),
\* which stays within 32 bit integers.
to_mldg(mmoll) ==
    LET a == 18 * mmoll
    IN  (a * 1001 + (a \div 1000)) \div 100000

\* The body of GET /api/v1/entries of a healthy store: the dates of its
\* entries, newest first.
RECURSIVE NewestFirst(_)
NewestFirst(S) ==
    IF S = {} THEN << >>
    ELSE LET m == SetMax(S) IN <<m>> \o NewestFirst(S \ {m})

\* --------------------------------------------------------------- the code
\* Python's row[k], k counted from 0.
HasField(row, k) == k < row.ncols
Field(row, k) ==
    CASE k = 1 -> row.c1
      [] k = 2 -> row.c2
      [] k = 3 -> row.c3
      [] k = 4 -> row.c4
      [] k = 12 -> row.c12

\* The duplicate test with < in the place of <=.
IsDuplicate_Strict(timestamp, last) == timestamp * MsPerSecond < last

\* "if timestamp <= last_timestamp: continue", last_timestamp in 1/1000 s.
IsDuplicate(timestamp, last) == timestamp * MsPerSecond <= last

\* "if timestamp >= current_timestamp: continue".
IsFuture(timestamp, now) == timestamp >= now

\* The reading columns of the types 0 and 1 taken for one another.
ReadingField_Swapped(record_type) ==
    CASE record_type = 0 -> 4
      [] record_type = 1 -> 3
      [] record_type = 2 -> 12

\* The branches on record_type: which column holds the reading, and which
\* type of entry is built from it.
KnownTypes == {0, 1, 2}
ReadingField(record_type) ==
    CASE record_type = 0 -> 3
      [] record_type = 1 -> 4
      [] record_type = 2 -> 12

MkEntry(record_type, reading, timestamp) ==
    IF record_type = 2
    THEN [type |-> "mbg", mbg |-> to_mldg(reading),
          date |-> timestamp * MsPerSecond]
    ELSE [type |-> "sgv", sgv |-> to_mldg(reading),
          date |-> timestamp * MsPerSecond]

Raises(exc) == [kind |-> exc, new |-> << >>]
Passes(new) == [kind |-> "ok", new |-> new]

\* The body of the for loop on one row: the exception it raises, or the
\* entries it appends (none when the row is skipped by a continue or has
\* a record type outside 0..2).  dateString, the ISO text of the same
\* instant, is left out of the entry.
ConvertRow(row, last, now) ==
    IF ~HasField(row, 1) THEN Raises("IndexError")
    ELSE IF ~Field(row, 1).ok THEN Raises("ValueError")
    ELSE LET timestamp == Field(row, 1).v IN
    IF IsDuplicate(timestamp, last) THEN Passes(<< >>)
    ELSE IF IsFuture(timestamp, now) THEN Passes(<< >>)
    ELSE IF ~HasField(row, 2) THEN Raises("IndexError")
    ELSE IF ~Field(row, 2).ok THEN Raises("ValueError")
    ELSE LET record_type == Field(row, 2).v IN
    IF record_type \notin KnownTypes THEN Passes(<< >>)
    ELSE LET k == ReadingField(record_type) IN
    IF ~HasField(row, k) THEN Raises("IndexError")
    ELSE IF ~Field(row, k).ok THEN Raises("ValueError")
    ELSE Passes(<<MkEntry(record_type, Field(row, k).v, timestamp)>>)

\* The entry put at the head of the batch: entries.insert(0, entry).
AppendEntry_Prepend(batch, new) == new \o batch

\* entries.append(entry)
AppendEntry(batch, new) == batch \o new

\* The test for an empty batch that never holds: "len(entries) < 0".
IsEmptyBatch_Never(batch) == Len(batch) < 0

\* "len(entries) == 0" after the loop.
IsEmptyBatch(batch) == Len(batch) = 0

\* The test of dry_run turned round: "if not dry_run".
DryRunArgs == {"<default False>", "True"}

\* The test of dry_run turned round: "if not dry_run".
Truthy_Inverted(arg) == arg \in {"<default False>", ""}

\* The truth value Python gives dry_run: the default False and the empty
\* text are false, every other text of the --dry_run option is true.
Truthy(arg) == arg \notin {"<default False>", ""}

\* The oldest entry of the response taken for the newest: entries[-1].
LastTimestamp_Oldest(body) == body[Len(body)]

\* entries[0]['date'] (/ 1000: see the note on units at the top).
LastTimestamp(body) == body[1]

\* files.sort(); files[-1]: the file with the greatest name.
GetLatest(fs) == CHOOSE f \in fs : \A g \in fs : g.name <= f.name

\* strftime(mtime, "%Y-%m-%dT%H%M") put in the place of "*": a name that
\* sorts as the modification time does.
DatedName(mtime) == mtime + 1

\* A file the pattern matches is a record of its name, its modification
\* time and its content: "libre_tsv" for a copy of --libre_tsv (copyfile
\* gives it the same lines), "preamble" for an export with no data rows.
\* open(f): the lines of f, tsv being --libre_tsv.
LinesOf(f, tsv) ==
    CASE f.content = "libre_tsv" -> tsv.lines
      [] f.content = "preamble" -> Preamble
      [] OTHER -> << >>

L(text, n) == [text |-> text, n |-> n]
Get == [method |-> "GET", body |-> << >>]
PostOf(batch) == [method |-> "POST", body |-> batch]
NoResponse == [status |-> 0, kind |-> "none", entries |-> << >>]
NoFile == [name |-> 0, mtime |-> 0, content |-> "none"]
NoPrev == [ran |-> FALSE, accepted |-> FALSE, uploaded |-> << >>,
           now |-> 0, read_ok |-> FALSE]

\* ------------------------------------------------------------------ state
VARIABLES
    clock,              \* the wall clock, in seconds
    run,                \* 1 or 2: which of the two runs this is
    invoked,            \* "__main__" or "upload_to_nightscout"
    dry_run,            \* the dry_run argument
    libre_tsv,          \* the file --libre_tsv names
    files,              \* the files --libre_tsv_glob matches
    store,              \* the dates (ms) of the entries Nightscout holds
    pc,                 \* the statement the run is at
    current_timestamp,  \* upload_to_nightscout's locals
    last_timestamp,
    r,                  \* the response to the GET
    latest_file,
    idx,                \* the line the csv reader is at
    entries,
    post_r,             \* the response to the POST
    net,                \* the requests the run has made, in order
    log,                \* what the run has printed
    exit_status,        \* the exit status, once pc is done or crashed
    produced,           \* history: what each row read so far appended
    prev                \* history: the outcome of the first run

locals == <<current_timestamp, last_timestamp, r, latest_file, idx, entries,
            post_r, produced>>
args == <<invoked, dry_run, libre_tsv>>
vars == <<clock, run, invoked, dry_run, libre_tsv, files, store, pc,
          current_timestamp, last_timestamp, r, latest_file, idx, entries,
          post_r, net, log, exit_status, produced, prev>>

Ended == pc \in {"done", "crashed"}

FirstStatement(how) ==
    IF how = "__main__" THEN "copy_file_if_newer"
    ELSE "find_last_nightscout_entry"

InitLocals ==
    /\ current_timestamp = 0
    /\ last_timestamp = 0
    /\ r = NoResponse
    /\ latest_file = NoFile
    /\ idx = 0
    /\ entries = << >>
    /\ post_r = NoResponse
    /\ produced = << >>

\* The store at the start: empty, or its newest entry at 1.0 s or at 1.5 s.
StoreInit == {{}, {MsPerSecond}, {MsPerSecond + 500}}

\* The files the pattern matches at the start: none, a stale file (older
\* than --libre_tsv, an export with no data rows yet), or the dated copy of
\* --libre_tsv an earlier run has made.  A direct call of
\* upload_to_nightscout is given no stale file: nothing would be copied.
FilesInit(how, tsv) ==
    {{}, {[name |-> DatedName(tsv.mtime), mtime |-> tsv.mtime,
           content |-> "libre_tsv"]}}
    \cup (IF how = "__main__"
          THEN {{[name |-> DatedName(0), mtime |-> 0, content |-> "preamble"]}}
          ELSE {})

\* The first run starts at the last instant a row may bear, or after it.
Init ==
    /\ clock \in {MaxTime, MaxTime + 1}
    /\ run = 1
    /\ invoked \in {"__main__", "upload_to_nightscout"}
    /\ dry_run \in DryRunArgs
    /\ libre_tsv \in {[mtime |-> 1, lines |-> l] : l \in Exports}
    /\ files \in FilesInit(invoked, libre_tsv)
    /\ store \in StoreInit
    /\ pc = FirstStatement(invoked)
    /\ InitLocals
    /\ net = << >>
    /\ log = << >>
    /\ exit_status = 0
    /\ prev = NoPrev

\* The start of two runs of the script on one export, neither a dry run:
\* the first run finds a stale file and makes the dated copy of --libre_tsv
\* that both runs then read.
InitTwice ==
    /\ Init
    /\ invoked = "__main__"
    /\ \E f \in files : f.mtime < libre_tsv.mtime
    /\ dry_run = "<default False>"

\* An uncaught exception: the traceback is printed and the exit status is 1.
Crash(exc) ==
    /\ pc' = "crashed"
    /\ exit_status' = 1
    /\ log' = Append(log, L(exc, 0))

\* The script returns from its last statement: exit status 0.
Return(printed) ==
    /\ pc' = "done"
    /\ exit_status' = 0
    /\ log' = log \o printed

\* ---------------------------------------------------------------- actions
\* copy_file_if_newer (lines 54-63), with its call of get_latest_file.
CopyFileIfNewer ==
    /\ pc = "copy_file_if_newer"
    /\ IF files = {}
       THEN /\ Crash("IndexError")
            /\ UNCHANGED files
       ELSE LET latest == GetLatest(files)
                new_file == [name |-> DatedName(libre_tsv.mtime),
                             mtime |-> clock,
                             content |-> "libre_tsv"]
            IN  /\ pc' = "find_last_nightscout_entry"
                /\ UNCHANGED exit_status
                /\ IF libre_tsv.mtime > latest.mtime
                   THEN /\ files' = {f \in files : f.name # new_file.name}
                                        \cup {new_file}
                        /\ log' = log \o <<L("Latest Libre tsv file", 0),
                                           L("New data found", 0)>>
                   ELSE /\ files' = files
                        /\ log' = log \o <<L("Latest Libre tsv file", 0),
                                           L("No new data found", 0)>>
    /\ UNCHANGED <<clock, run, args, store, locals, net, prev>>

\* What the GET may be answered with: the store's entries, newest first,
\* with status 200, or a response of another status, whose body is no JSON,
\* a JSON object (an error message) or an empty JSON value.
GetResponses ==
    {[status |-> HttpOk,
      kind |-> IF store = {} THEN "json_empty" ELSE "json_entries",
      entries |-> NewestFirst(store)]}
    \cup {[status |-> 500, kind |-> k, entries |-> << >>] :
            k \in {"not_json", "json_object", "json_empty"}}

\* Lines 67-72: the run-start time is taken, then find_last_nightscout_entry
\* (lines 29-39) makes the GET.  The status of the response is not read.
FindLastNightscoutEntry ==
    /\ pc = "find_last_nightscout_entry"
    /\ current_timestamp' = clock
    /\ net' = Append(net, Get)
    /\ LET printed == Append(log, L("Current time", clock)) IN
       \/ \* requests.get raises: no response
          /\ pc' = "crashed"
          /\ exit_status' = 1
          /\ log' = Append(printed, L("ConnectionError", 0))
          /\ UNCHANGED <<r, last_timestamp>>
       \/ \E resp \in GetResponses :
            /\ r' = resp
            /\ CASE resp.kind = "not_json" ->
                      \* r.json() raises
                      /\ pc' = "crashed"
                      /\ exit_status' = 1
                      /\ log' = Append(printed, L("JSONDecodeError", 0))
                      /\ UNCHANGED last_timestamp
                 [] resp.kind = "json_object" ->
                      \* len(entries) is not 0 and entries[0] raises
                      /\ pc' = "crashed"
                      /\ exit_status' = 1
                      /\ log' = Append(printed, L("KeyError", 0))
                      /\ UNCHANGED last_timestamp
                 [] resp.kind = "json_empty" ->
                      /\ last_timestamp' = 0
                      /\ pc' = "get_latest_file"
                      /\ log' = Append(printed,
                                       L("No entries found in Nightscout", 0))
                      /\ UNCHANGED exit_status
                 [] resp.kind = "json_entries" ->
                      /\ last_timestamp' = LastTimestamp(resp.entries)
                      /\ pc' = "get_latest_file"
                      /\ log' = Append(printed,
                                       L("Last timestamp in Nightscout",
                                         LastTimestamp(resp.entries)))
                      /\ UNCHANGED exit_status
    /\ UNCHANGED <<clock, run, args, files, store, latest_file, idx, entries,
                   post_r, produced, prev>>

\* Line 73: get_latest_file (lines 46-51).
GetLatestFile ==
    /\ pc = "get_latest_file"
    /\ IF files = {}
       THEN /\ Crash("IndexError")
            /\ UNCHANGED latest_file
       ELSE /\ latest_file' = GetLatest(files)
            /\ pc' = "open"
            /\ log' = Append(log, L("Latest Libre tsv file", 0))
            /\ UNCHANGED exit_status
    /\ UNCHANGED <<clock, run, args, files, store, current_timestamp,
                   last_timestamp, r, idx, entries, post_r, produced, net,
                   prev>>

\* Lines 75-80: the file is opened, two lines are skipped, entries = [].
OpenFile ==
    /\ pc = "open"
    /\ idx' = IF Len(LinesOf(latest_file, libre_tsv)) < 2
              THEN Len(LinesOf(latest_file, libre_tsv)) + 1 ELSE 3
    /\ entries' = << >>
    /\ pc' = "for_row"
    /\ UNCHANGED <<clock, run, args, files, store, current_timestamp,
                   last_timestamp, r, latest_file, post_r, produced, net, log,
                   exit_status, prev>>

\* Lines 81-101: one turn of the loop, on the row the reader is at.
ProcessRow ==
    /\ pc = "for_row"
    /\ idx <= Len(LinesOf(latest_file, libre_tsv))
    /\ LET out == ConvertRow(LinesOf(latest_file, libre_tsv)[idx],
                             last_timestamp, current_timestamp)
       IN  IF out.kind = "ok"
           THEN /\ entries' = AppendEntry(entries, out.new)
                /\ produced' = Append(produced, out.new)
                /\ idx' = idx + 1
                /\ UNCHANGED <<pc, log, exit_status>>
           ELSE /\ Crash(out.kind)
                /\ UNCHANGED <<entries, produced, idx>>
    /\ UNCHANGED <<clock, run, args, files, store, current_timestamp,
                   last_timestamp, r, latest_file, post_r, net, prev>>

\* Lines 103-113, once the reader is at the end of the file: the entries
\* are printed, then the run returns or goes on to the upload.
Report ==
    /\ pc = "for_row"
    /\ idx > Len(LinesOf(latest_file, libre_tsv))
    /\ LET printed == [i \in 1..Len(entries) |-> L("entry", entries[i].date)]
       IN  IF IsEmptyBatch(entries)
           THEN Return(printed \o <<L("No new entries", 0)>>)
           ELSE IF Truthy(dry_run)
           THEN Return(printed
                       \o <<L("Dry run, not uploading to Nightscout", 0)>>)
           ELSE /\ pc' = "post"
                /\ log' = log \o printed \o <<L("Uploading to Nightscout", 0)>>
                /\ UNCHANGED exit_status
    /\ UNCHANGED <<clock, run, args, files, store, locals, net, prev>>

\* Lines 114-120: the POST of the whole batch, and what is printed of its
\* response.  A store that answers 200 has stored the entries.
Post ==
    /\ pc = "post"
    /\ net' = Append(net, PostOf(entries))
    /\ \/ \* requests.post raises: no response
          /\ Crash("ConnectionError")
          /\ UNCHANGED <<post_r, store>>
       \/ /\ post_r' = [status |-> HttpOk, kind |-> "text", entries |-> << >>]
          /\ store' = store \cup {entries[i].date : i \in 1..Len(entries)}
          /\ Return(<<L("Uploaded successfully", 0), L("r.text", 0)>>)
       \/ /\ post_r' = [status |-> 500, kind |-> "text", entries |-> << >>]
          /\ store' = store
          /\ Return(<<L("%d", 500), L("r.text", 0)>>)
    /\ UNCHANGED <<clock, run, args, files, current_timestamp, last_timestamp,
                   r, latest_file, idx, entries, produced, prev>>

\* The script is run again, later, with the same command line; nothing else
\* has written to the store or to the directory in between.
NextRun ==
    /\ Ended
    /\ run = 1
    /\ run' = 2
    /\ clock' \in clock..(MaxTime + 1)
    /\ prev' = [ran |-> TRUE,
                accepted |-> post_r.status = HttpOk,
                uploaded |-> IF post_r.status = HttpOk THEN entries ELSE << >>,
                now |-> current_timestamp,
                read_ok |-> r.status = HttpOk]
    /\ pc' = FirstStatement(invoked)
    /\ current_timestamp' = 0
    /\ last_timestamp' = 0
    /\ r' = NoResponse
    /\ latest_file' = NoFile
    /\ idx' = 0
    /\ entries' = << >>
    /\ post_r' = NoResponse
    /\ produced' = << >>
    /\ net' = << >>
    /\ log' = << >>
    /\ exit_status' = 0
    /\ UNCHANGED <<args, files, store>>

Next ==
    \/ CopyFileIfNewer
    \/ FindLastNightscoutEntry
    \/ GetLatestFile
    \/ OpenFile
    \/ ProcessRow
    \/ Report
    \/ Post

\* One run.
Spec == Init /\ [][Next]_vars

\* Two runs, one after the other.
NextTwice ==
    \/ Next
    \/ NextRun

SpecTwice == InitTwice /\ [][NextTwice]_vars

\* ------------------------------------------------- vocabulary of the claims
RECURSIVE Flatten(_)
Flatten(ss) == IF ss = << >> THEN << >> ELSE Head(ss) \o Flatten(Tail(ss))

\* The data row that produced[i] belongs to (the preamble is two lines).
Lines == LinesOf(latest_file, libre_tsv)
RowOf(i) == Lines[i + 2]
TimeReadable(row) == row.ncols >= 2 /\ row.c1.ok
InstantOf(row) == row.c1.v
TypeReadable(row) == row.ncols >= 3 /\ row.c2.ok
TypeOf(row) == row.c2.v

\* w < e < t, with w the watermark (kept in 1/1000 s) and t the run start.
InSyncWindow(e, w, t) == w < e * 1000 /\ e < t

\* The reader has gone through the whole file without an exception.
IngestDone == latest_file # NoFile /\ idx > Len(Lines)
Posts == {i \in 1..Len(net) : net[i].method = "POST"}
Logged(text, n) == \E i \in 1..Len(log) : log[i] = [text |-> text, n |-> n]
DryRunConfigured == dry_run \notin {"<default False>", ""}

\* C1: a row of record type 0, 1 or 2 that the loop has gone through
\* appended an entry if and only if w < e < t holds of its instant e; a row
\* with e = w or e = t appended nothing.  (A row whose own reading does not
\* parse ends the run instead: that is C6's matter.)
C1_WindowFilter ==
    \A i \in 1..Len(produced) :
        LET row == RowOf(i) IN
        (TimeReadable(row) /\ TypeReadable(row) /\ TypeOf(row) \in {0, 1, 2})
        => (produced[i] # << >>
              <=> InSyncWindow(InstantOf(row), last_timestamp,
                               current_timestamp))

\* One run in which a row inside the window was taken and a row of a known
\* type at e = w or at e = t was not.
C1_Witness ==
    /\ IngestDone
    /\ \E i, j \in 1..Len(produced) :
        /\ produced[i] # << >>
        /\ produced[j] = << >>
        /\ TimeReadable(RowOf(j)) /\ TypeReadable(RowOf(j))
        /\ TypeOf(RowOf(j)) \in {0, 1, 2}
        /\ \/ InstantOf(RowOf(j)) * 1000 = last_timestamp
           \/ InstantOf(RowOf(j)) = current_timestamp

\* C9: for a row inside the window the record type decides the entry: 0
\* gives an sgv entry of row[3], 1 an sgv entry of row[4], 2 an mbg entry of
\* row[12]; any other code gives no entry and no exception; no row gives
\* more than one entry.
C9_Dispatch ==
    /\ \A i \in 1..Len(produced) :
        LET row == RowOf(i) IN
        (/\ TimeReadable(row)
         /\ InSyncWindow(InstantOf(row), last_timestamp, current_timestamp)
         /\ TypeReadable(row))
        => /\ Len(produced[i]) <= 1
           /\ TypeOf(row) = 0 =>
                /\ Len(produced[i]) = 1
                /\ produced[i][1].type = "sgv"
                /\ produced[i][1].sgv = to_mldg(row.c3.v)
           /\ TypeOf(row) = 1 =>
                /\ Len(produced[i]) = 1
                /\ produced[i][1].type = "sgv"
                /\ produced[i][1].sgv = to_mldg(row.c4.v)
           /\ TypeOf(row) = 2 =>
                /\ Len(produced[i]) = 1
                /\ produced[i][1].type = "mbg"
                /\ produced[i][1].mbg = to_mldg(row.c12.v)
           /\ TypeOf(row) \notin {0, 1, 2} => produced[i] = << >>
    /\ (pc = "crashed" /\ idx \in 3..Len(Lines)) =>
        LET row == Lines[idx] IN
        ~(/\ TimeReadable(row)
          /\ InSyncWindow(InstantOf(row), last_timestamp, current_timestamp)
          /\ TypeReadable(row)
          /\ TypeOf(row) \notin {0, 1, 2})

\* A file with a strip row (type 2) and a row of an unknown type, both
\* inside the window, has been gone through.
C9_Witness ==
    /\ IngestDone
    /\ \E i, j \in 1..Len(produced) :
        /\ TypeReadable(RowOf(i)) /\ TypeOf(RowOf(i)) = 2
        /\ produced[i] # << >>
        /\ TimeReadable(RowOf(j)) /\ TypeReadable(RowOf(j))
        /\ TypeOf(RowOf(j)) = 3
        /\ InSyncWindow(InstantOf(RowOf(j)), last_timestamp,
                        current_timestamp)

\* The entries a file gives for a watermark w and a run start t, written
\* without the loop and without reference to dry_run.
EntryOf(row) ==
    IF TypeOf(row) = 2
    THEN [type |-> "mbg", mbg |-> to_mldg(row.c12.v),
          date |-> InstantOf(row) * 1000]
    ELSE [type |-> "sgv",
          sgv |-> to_mldg(IF TypeOf(row) = 0 THEN row.c3.v ELSE row.c4.v),
          date |-> InstantOf(row) * 1000]

RECURSIVE BatchOf(_, _, _)
BatchOf(rows, w, t) ==
    IF rows = << >> THEN << >>
    ELSE LET row == Head(rows) IN
         (IF /\ TimeReadable(row)
             /\ InSyncWindow(InstantOf(row), w, t)
             /\ TypeReadable(row)
             /\ TypeOf(row) \in {0, 1, 2}
          THEN <<EntryOf(row)>> ELSE << >>)
         \o BatchOf(Tail(rows), w, t)

ExpectedBatch ==
    BatchOf(SubSeq(Lines, 3, Len(Lines)), last_timestamp, current_timestamp)

\* C7: the batch a run has once the file is read is the function
\* ExpectedBatch of the file, the watermark and the run start alone, dry run
\* or not; a dry run makes no POST and ends with exit status 0; a run that
\* is no dry run and has a batch that is not empty makes the POST.
C7_DryRun ==
    /\ IngestDone => entries = ExpectedBatch
    /\ DryRunConfigured => Posts = {}
    /\ (DryRunConfigured /\ IngestDone /\ Ended) =>
            (pc = "done" /\ exit_status = 0)
    /\ (~DryRunConfigured /\ IngestDone /\ Ended /\ entries # << >>) =>
            Posts # {}

\* A dry run has ended with a batch that is not empty.
C7_Witness ==
    /\ DryRunConfigured
    /\ pc = "done"
    /\ IngestDone
    /\ entries # << >>
    /\ Logged("Dry run, not uploading to Nightscout", 0)

\* C8: a run whose batch is empty once the file is read prints "No new
\* entries", makes no POST and ends with exit status 0, dry run or not.
C8_EmptyBatch ==
    /\ (IngestDone /\ entries = << >>) => (Posts = {} /\ pc # "post")
    /\ (IngestDone /\ entries = << >> /\ Ended) =>
            /\ pc = "done"
            /\ exit_status = 0
            /\ Logged("No new entries", 0)

\* A run has ended on a file all of whose rows are at or before the
\* watermark, dry run not set.
C8_Witness ==
    /\ pc = "done"
    /\ IngestDone
    /\ ~DryRunConfigured
    /\ entries = << >>
    /\ Len(produced) >= 2
    /\ \A i \in 1..Len(produced) :
        /\ TimeReadable(RowOf(i))
        /\ InstantOf(RowOf(i)) * 1000 <= last_timestamp
        /\ TypeReadable(RowOf(i)) /\ TypeOf(RowOf(i)) \in {0, 1, 2}

\* C10: a run makes at most two requests, the GET and then at most one POST;
\* a POST is made only once the GET is answered and the whole file is read,
\* and its body is the whole batch, the entries in the order of their rows;
\* a run that is no dry run and has a batch that is not empty makes exactly
\* one POST.
C10_SingleUpload ==
    /\ Len(net) <= 2
    /\ Cardinality(Posts) <= 1
    /\ net # << >> => net[1].method = "GET"
    /\ \A i \in Posts :
        /\ i = 2
        /\ r # NoResponse
        /\ IngestDone
        /\ Len(produced) = Len(Lines) - 2
        /\ net[i].body = entries
        /\ net[i].body = Flatten(produced)
        /\ net[i].body # << >>
    /\ (~DryRunConfigured /\ IngestDone /\ Ended /\ entries # << >>) =>
            Cardinality(Posts) = 1

\* A run has posted a batch of two different entries.
C10_Witness ==
    /\ pc = "done"
    /\ Len(net) = 2
    /\ Len(net[2].body) = 2
    /\ net[2].body[1] # net[2].body[2]
    /\ post_r.status = 200

RECURSIVE MaxDate(_)
MaxDate(batch) ==
    IF Len(batch) = 1 THEN batch[1].date
    ELSE LET m == MaxDate(Tail(batch))
         IN  IF batch[1].date > m THEN batch[1].date ELSE m

SecondRunAfterUpload == run = 2 /\ prev.accepted /\ r.status = 200

C3_FailedUploadFails ==
    (Ended /\ post_r # NoResponse /\ post_r.status # 200) =>
        /\ Logged("%d", post_r.status)
        /\ Logged("r.text", 0)
        /\ exit_status # 0

\* C4, as the claim has it: in a run whose GET has ended in a transport
\* error or in a response of a status other than 200, no watermark is
\* taken from the response, no file is located and ingested, no POST is
\* made, and the run ends crashed, with exit status 1.
C4_FailedReadAborts ==
    (net # << >> /\ r.status # 200) =>
        /\ pc \notin {"get_latest_file", "open", "for_row", "post"}
        /\ latest_file = NoFile
        /\ Posts = {}
        /\ Ended => (pc = "crashed" /\ exit_status = 1)

\* C5, as the claim has it: a run whose pattern matches no file makes no
\* request.
C5_NoFileNoNetwork ==
    files = {} => net = << >>

\* A row that does not parse: no time column or a time that does not
\* parse, no record type or one that does not parse, or, for the types 0, 1
\* and 2, no reading column of that type or a reading that does not parse.
Unparsable(row) ==
    \/ ~TimeReadable(row)
    \/ ~TypeReadable(row)
    \/ TypeOf(row) = 0 /\ (row.ncols < 4 \/ ~row.c3.ok)
    \/ TypeOf(row) = 1 /\ (row.ncols < 5 \/ ~row.c4.ok)
    \/ TypeOf(row) = 2 /\ (row.ncols < 13 \/ ~row.c12.ok)

\* C6, as the claim has it: a run on a file with a row that does not parse
\* never gets past the loop: it makes no POST and does not end with exit
\* status 0.
C6_UnparsableRowAborts ==
    (latest_file # NoFile /\ \E i \in 3..Len(Lines) : Unparsable(Lines[i]))
    => /\ Posts = {}
       /\ pc # "done"

====
